---------------------------- MODULE Spec2Model ----------------------------
(***************************************************************************)
(* The loss of src/isolating_factors/mnist.ipynb ("The heart of ABC"):     *)
(* pairwise distances, get_scaled_similarity, align_pair_of_sequences and  *)
(* the two directional calls of one training step, and the training loop   *)
(* around them.                                                            *)
(*                                                                         *)
(* Numbers.  A float32 is modelled as a fixed-point integer with SCALE     *)
(* units per 1.0 (a probability returned by softmax: PROB units per 1.0),  *)
(* or as one of the IEEE non-finite values NaN, +inf, -inf.  Every         *)
(* arithmetic result is rounded to the nearest unit, as a float operation  *)
(* rounds to the nearest representable value.                              *)
(***************************************************************************)
EXTENDS Integers, Sequences, FiniteSets

SCALE == 1000

PROB == 1000000

(* ------------------------------ floats -------------------------------- *)

Fin(n) == [k |-> "fin", v |-> n]

NaN == [k |-> "nan", v |-> 0]

PInf == [k |-> "inf", v |-> 1]

NInf == [k |-> "inf", v |-> -1]

IsFin(x) == x.k = "fin"

IsNaN(x) == x.k = "nan"

Abs(n) == IF n < 0 THEN -n ELSE n

\* a / b rounded to the nearest integer, halves away from zero (b # 0)
RDiv(a, b) ==
  LET n == IF b < 0 THEN -a ELSE a
      d == Abs(b)
  IN  IF n >= 0 THEN (n + d \div 2) \div d ELSE -((-n + d \div 2) \div d)

FNeg(x) == IF IsNaN(x) THEN NaN ELSE [x EXCEPT !.v = -x.v]

\* IEEE addition: NaN is absorbing, inf + (-inf) is NaN
FAdd(x, y) ==
  IF IsFin(x) /\ IsFin(y) THEN Fin(x.v + y.v)
  ELSE IF IsNaN(x) \/ IsNaN(y) THEN NaN
  ELSE IF IsFin(x) THEN y
  ELSE IF IsFin(y) \/ x = y THEN x
  ELSE NaN

FSub(x, y) == FAdd(x, FNeg(y))

\* Operands are finite or NaN wherever FMul, FAbs, FMax and FSqrt are
\* applied: the only infinities are made by FDiv (and kept by FAdd) and are
\* consumed by softmax and cross-entropy.
FMul(x, y) == IF IsFin(x) /\ IsFin(y) THEN Fin(RDiv(x.v * y.v, SCALE)) ELSE NaN

FAbs(x) == IF IsFin(x) THEN Fin(Abs(x.v)) ELSE NaN

\* tf.maximum and tf.reduce_max: the larger operand, NaN if either is NaN
FMax(x, y) ==
  IF IsFin(x) /\ IsFin(y) THEN (IF x.v >= y.v THEN x ELSE y) ELSE NaN

\* IEEE division: 0/0 is NaN, x/0 is an infinity of x's sign
FDiv(x, y) ==
  IF ~(IsFin(x) /\ IsFin(y)) THEN NaN
  ELSE IF y.v # 0 THEN Fin(RDiv(x.v * SCALE, y.v))
  ELSE IF x.v = 0 THEN NaN
  ELSE IF x.v > 0 THEN PInf ELSE NInf

RECURSIVE SqrtBetween(_, _, _)
SqrtBetween(n, lo, hi) ==
  IF lo >= hi THEN lo
  ELSE LET mid == (lo + hi + 1) \div 2
       IN  IF mid * mid <= n THEN SqrtBetween(n, mid, hi)
           ELSE SqrtBetween(n, lo, mid - 1)

\* floor of the square root of n >= 0
ISqrt(n) == SqrtBetween(n, 0, IF n < 46340 THEN n ELSE 46340)

\* tf.sqrt of a fixed-point value
FSqrt(x) ==
  IF ~IsFin(x) \/ x.v < 0 THEN NaN ELSE Fin(ISqrt(x.v * SCALE))

\* e^-k for k = 0..7, in units of 1/SCALE; e^-8 and below round to 0
ExpTable == <<1000, 368, 135, 50, 18, 7, 2, 1>>

\* e^(-f/SCALE) for 0 <= f < SCALE, by its Taylor series
ExpFrac(f) ==
  LET t2 == RDiv(f * f, 2 * SCALE)
      t3 == RDiv(t2 * f, 3 * SCALE)
      t4 == RDiv(t3 * f, 4 * SCALE)
      t5 == RDiv(t4 * f, 5 * SCALE)
      t6 == RDiv(t5 * f, 6 * SCALE)
  IN  SCALE - f + t2 - t3 + t4 - t5 + t6

\* e^(-y/SCALE) for y >= 0, in units of 1/SCALE
ExpNeg(y) ==
  LET k == y \div SCALE
  IN  IF k >= Len(ExpTable) THEN 0
      ELSE RDiv(ExpTable[k + 1] * ExpFrac(y % SCALE), SCALE)

\* ln(y/SCALE) for y >= SCALE, in units of 1/SCALE:
\* ln 2 per halving, then 2 atanh((y-1)/(y+1)) by its series
RECURSIVE LogFP(_)
LogFP(y) ==
  IF y >= 2 * SCALE THEN 693 + LogFP(RDiv(y, 2))
  ELSE LET z  == RDiv((y - SCALE) * SCALE, y + SCALE)
           z2 == RDiv(z * z, SCALE)
           z3 == RDiv(z * z2, SCALE)
           z5 == RDiv(z3 * z2, SCALE)
           z7 == RDiv(z5 * z2, SCALE)
       IN  2 * (z + RDiv(z3, 3) + RDiv(z5, 5) + RDiv(z7, 7))

(* ------------------------------ tensors ------------------------------- *)
\* A matrix is a sequence of rows, a row a sequence of floats.

RECURSIVE SumF(_)
\* tf.reduce_sum over a sequence of floats
SumF(s) == IF s = <<>> THEN Fin(0) ELSE FAdd(Head(s), SumF(Tail(s)))

RECURSIVE MaxF(_)
\* tf.reduce_max over a non-empty sequence of floats
MaxF(s) == IF Len(s) = 1 THEN s[1] ELSE FMax(s[1], MaxF(Tail(s)))

Rows(m) == 1..Len(m)

Cols(m) == IF m = <<>> THEN {} ELSE 1..Len(m[1])

\* tf.matmul(a, b, False, True): entry (i, j) is the dot product of row i of
\* a and row j of b
MatMulT(a, b) ==
  [i \in Rows(a) |->
     [j \in Rows(b) |-> SumF([k \in 1..Len(a[i]) |-> FMul(a[i][k], b[j][k])])]]

\* tf.reduce_sum(tf.square(embs), 1)
SquaredNorms(embs) ==
  [i \in Rows(embs) |->
     SumF([k \in 1..Len(embs[i]) |-> FMul(embs[i][k], embs[i][k])])]

(* ------------------------- pairwise distances ------------------------- *)

pairwise_l2_distance(embs1, embs2) ==
  LET norm1 == SquaredNorms(embs1)
      norm2 == SquaredNorms(embs2)
      prod  == MatMulT(embs1, embs2)
  IN  [i \in Rows(embs1) |->
        [j \in Rows(embs2) |->
           FMax(FSub(FAdd(norm1[i], norm2[j]),
                     FMul(Fin(2 * SCALE), prod[i][j])),
                Fin(0))]]

\* the L1 distance without the absolute value
pairwise_l1_distance_Signed(embs1, embs2) ==
  [i \in Rows(embs1) |->
     [j \in Rows(embs2) |->
        SumF([k \in 1..Len(embs1[i]) |-> FSub(embs1[i][k], embs2[j][k])])]]

pairwise_l1_distance(embs1, embs2) ==
  [i \in Rows(embs1) |->
     [j \in Rows(embs2) |->
        SumF([k \in 1..Len(embs1[i]) |->
                FAbs(FSub(embs1[i][k], embs2[j][k]))])]]

pairwise_linf_distance(embs1, embs2) ==
  [i \in Rows(embs1) |->
     [j \in Rows(embs2) |->
        MaxF([k \in 1..Len(embs1[i]) |->
                FAbs(FSub(embs1[i][k], embs2[j][k]))])]]

(* ------------------------ get_scaled_similarity ----------------------- *)

Supported == {"l2sq", "l2", "l1", "linf", "cosine"}

\* tf.linalg.normalize(embs, ord=2, axis=-1): each row over its L2 norm; a
\* zero row is 0/0 = NaN in every coordinate
Normalize(embs) ==
  [i \in Rows(embs) |->
     LET norm == FSqrt(SumF([k \in 1..Len(embs[i]) |->
                               FMul(embs[i][k], embs[i][k])]))
     IN  [k \in 1..Len(embs[i]) |-> FDiv(embs[i][k], norm)]]

\* -1.0 * dist
Negate(m) ==
  [i \in Rows(m) |-> [j \in 1..Len(m[i]) |-> FMul(Fin(-SCALE), m[i][j])]]

\* The branch of get_scaled_similarity that assigns `similarity` for the
\* metrics whose branch completes
Similarity(embs1, embs2, type) ==
  CASE type = "l2sq"   -> Negate(pairwise_l2_distance(embs1, embs2))
    [] type = "l1"     -> Negate(pairwise_l1_distance(embs1, embs2))
    [] type = "linf"   -> Negate(pairwise_linf_distance(embs1, embs2))
    [] type = "cosine" -> MatMulT(Normalize(embs1), Normalize(embs2))

\* similarity /= temperature
Scaled(m, t) == [i \in Rows(m) |-> [j \in 1..Len(m[i]) |-> FDiv(m[i][j], t)]]

(* ----------------------- align_pair_of_sequences ---------------------- *)

\* One row of tf.nn.softmax: exp(x - max) / sum exp(x - max), in units of
\* 1/PROB.  A NaN or +inf entry, or a row of -inf only, makes max or
\* x - max NaN, and then the sum and every entry NaN.
SoftmaxRow(r) ==
  LET J == 1..Len(r)
      finite == {j \in J : IsFin(r[j])}
  IN  IF (\E j \in J : IsNaN(r[j]) \/ r[j] = PInf) \/ finite = {}
      THEN [j \in J |-> NaN]
      ELSE LET mx == CHOOSE v \in {r[j].v : j \in finite} :
                       \A j \in finite : r[j].v <= v
               e  == [j \in J |-> IF IsFin(r[j]) THEN ExpNeg(mx - r[j].v) ELSE 0]
               z  == SumF([j \in J |-> Fin(e[j])]).v
           IN  [j \in J |-> Fin(RDiv(e[j] * PROB, z))]

\* the softmax taken down the columns (axis=0)
Softmax_Axis0(sim) ==
  LET cols == [j \in Cols(sim) |-> SoftmaxRow([i \in Rows(sim) |-> sim[i][j]])]
  IN  [i \in Rows(sim) |-> [j \in Cols(sim) |-> cols[j][i]]]

\* tf.nn.softmax(sim, axis=1)
Softmax(sim) == [i \in Rows(sim) |-> SoftmaxRow(sim[i])]

\* a probability (units of 1/PROB) times a float
PMul(p, x) == IF IsFin(p) /\ IsFin(x) THEN Fin(RDiv(p.v * x.v, PROB)) ELSE NaN

\* tf.matmul(softmaxed_sim_12, embs2)
SoftNeighbors(p, embs2) ==
  [i \in Rows(p) |->
     [k \in Cols(embs2) |->
        SumF([j \in Rows(embs2) |-> PMul(p[i][j], embs2[j][k])])]]

\* the cross-entropy without its normaliser log(sum exp(x - max))
CrossEntropyRow_NoLogSum(r, label) ==
  LET J == 1..Len(r)
      finite == {j \in J : IsFin(r[j])}
  IN  IF label \notin J \/ (\E j \in J : IsNaN(r[j]) \/ r[j] = PInf) \/ finite = {}
      THEN NaN
      ELSE IF ~IsFin(r[label]) THEN PInf
      ELSE LET mx == CHOOSE v \in {r[j].v : j \in finite} :
                       \A j \in finite : r[j].v <= v
           IN  Fin(mx - r[label].v)

\* the cross-entropy with the label's logit entering with the wrong sign
CrossEntropyRow_WrongSign(r, label) ==
  LET J == 1..Len(r)
      finite == {j \in J : IsFin(r[j])}
  IN  IF label \notin J \/ (\E j \in J : IsNaN(r[j]) \/ r[j] = PInf) \/ finite = {}
      THEN NaN
      ELSE IF ~IsFin(r[label]) THEN PInf
      ELSE LET mx == CHOOSE v \in {r[j].v : j \in finite} :
                       \A j \in finite : r[j].v <= v
               z  == SumF([j \in J |->
                             Fin(IF IsFin(r[j]) THEN ExpNeg(mx - r[j].v) ELSE 0)]).v
           IN  Fin(LogFP(z) - (mx - r[label].v))

\* sparse_categorical_crossentropy(label, logits, from_logits=True) of one
\* row: log(sum exp(x - max)) - (x[label] - max); NaN for a label that is
\* no column of the row
CrossEntropyRow(r, label) ==
  LET J == 1..Len(r)
      finite == {j \in J : IsFin(r[j])}
  IN  IF label \notin J \/ (\E j \in J : IsNaN(r[j]) \/ r[j] = PInf) \/ finite = {}
      THEN NaN
      ELSE IF ~IsFin(r[label]) THEN PInf
      ELSE LET mx == CHOOSE v \in {r[j].v : j \in finite} :
                       \A j \in finite : r[j].v <= v
               z  == SumF([j \in J |->
                             Fin(IF IsFin(r[j]) THEN ExpNeg(mx - r[j].v) ELSE 0)]).v
           IN  Fin(LogFP(z) + (mx - r[label].v))

\* tf.reduce_mean over the rows' losses
ReduceMean(s) ==
  LET total == SumF(s)
  IN  IF \E i \in 1..Len(s) : s[i] = PInf THEN
        (IF \E i \in 1..Len(s) : IsNaN(s[i]) THEN NaN ELSE PInf)
      ELSE IF IsFin(total) THEN Fin(RDiv(total.v, Len(s))) ELSE NaN

\* every row scored against label 0 instead of its own index
CycleLoss_LabelZero(sim_21) ==
  ReduceMean([i \in Rows(sim_21) |-> CrossEntropyRow(sim_21[i], 1)])

\* the labels tf.range(ss1) against the rows of sim_21
CycleLoss(sim_21) ==
  ReduceMean([i \in Rows(sim_21) |-> CrossEntropyRow(sim_21[i], i)])

(* --------------------------- the program ------------------------------ *)

MaxRows == 2

\* The embedding vectors the model draws from (in whole units): the zero
\* vector, a unit vector, and a vector of another norm and direction.
Vectors == {<<0, 0>>, <<1, 0>>, <<-1, 1>>}

\* similarity_type: the five documented options and one that is none of them
Types == Supported \cup {"manhattan-typo"}

\* temperature: -1.0, 0.0, 0.5 and 1.0
Temperatures == {Fin(-SCALE), Fin(0), Fin(SCALE \div 2), Fin(SCALE)}

Embeddings ==
  UNION {{[i \in 1..n |-> [k \in 1..Len(f[i]) |-> Fin(f[i][k] * SCALE)]] :
            f \in [1..n -> Vectors]} : n \in 1..MaxRows}

NoLoss == [k |-> "none", v |-> 0]

NoError == [type |-> "none", msg |-> <<>>]

VARIABLES
  similarity_type,   \* the notebook's similarity_type
  temperature,       \* the notebook's temperature
  embs1, embs2,      \* the training step's two embedding stacks
  pc,                \* where the step is
  dir,               \* 1: the call of line 333, 2: the call of line 334
  sim_12, softmaxed_sim_12, nn_embs, sim_21,  \* align_pair_of_sequences' locals
  ret,               \* the value the call in progress has returned
  loss,              \* the training step's loss
  error,             \* the exception that ended the step, if one did
  work,              \* the numeric operations the call in progress has run
  num_steps,         \* the notebook's num_steps
  output_loss_every, \* the notebook's output_loss_every
  output_plots_during_training,  \* the notebook's flag of that name
  step,              \* the loop variable of line 329
  losses,            \* the list losses
  reports,           \* the progress reports displayed or printed so far
  params             \* model.trainable_variables, as the updates applied to them

vars == <<similarity_type, temperature, embs1, embs2, pc, dir, sim_12,
          softmaxed_sim_12, nn_embs, sim_21, ret, loss, error, work,
          num_steps, output_loss_every, output_plots_during_training, step,
          losses, reports, params>>

config == <<similarity_type, temperature, embs1, embs2>>

locals == <<sim_12, softmaxed_sim_12, nn_embs, sim_21>>

\* the training loop's configuration and state outside the step's two calls
run == <<num_steps, output_loss_every, output_plots_during_training, step,
         losses, reports, params>>

\* align_pair_of_sequences' parameter embs1 in the call in progress
Arg1 == IF dir = 1 THEN embs1 ELSE embs2

\* align_pair_of_sequences' parameter embs2 in the call in progress
Arg2 == IF dir = 1 THEN embs2 ELSE embs1

Init ==
  /\ similarity_type \in Types
  /\ temperature \in Temperatures
  /\ embs1 \in Embeddings
  /\ embs2 \in Embeddings
  /\ pc = "sim12"
  /\ dir = 1
  /\ sim_12 = <<>> /\ softmaxed_sim_12 = <<>> /\ nn_embs = <<>> /\ sim_21 = <<>>
  /\ ret = NoLoss
  /\ loss = NoLoss
  /\ error = NoError
  /\ work = <<>>
  /\ num_steps = 1
  /\ output_loss_every = 1
  /\ output_plots_during_training = TRUE
  /\ step = 0
  /\ losses = <<>>
  /\ reports = <<>>
  /\ params = 0

\* get_scaled_similarity's operands at its two call sites
SimArg1 == IF pc = "sim12" THEN Arg1 ELSE nn_embs

\* the second similarity taken against embs2 again
SimArg2_AlwaysEmbs2 == Arg2

SimArg2 == IF pc = "sim12" THEN Arg2 ELSE Arg1

\* get_scaled_similarity, a metric whose branch completes
GetScaledSimilarity ==
  /\ pc \in {"sim12", "sim21"}
  /\ similarity_type \in Supported \ {"l2"}
  /\ LET similarity == Scaled(Similarity(SimArg1, SimArg2, similarity_type),
                              temperature)
     IN  IF pc = "sim12"
         THEN sim_12' = similarity /\ pc' = "softmax" /\ UNCHANGED sim_21
         ELSE sim_21' = similarity /\ pc' = "xent" /\ UNCHANGED sim_12
  /\ work' = work \o <<"similarity", "divide">>
  /\ UNCHANGED <<config, run, dir, softmaxed_sim_12, nn_embs, ret, loss, error>>

\* get_scaled_similarity, 'l2': pairwise_l2_distance returns, then the name
\* eps, which the notebook never binds, is looked up
GetScaledSimilarityL2 ==
  /\ pc \in {"sim12", "sim21"}
  /\ similarity_type = "l2"
  /\ pairwise_l2_distance(SimArg1, SimArg2) # <<>>
  /\ work' = Append(work, "distance")
  /\ error' = [type |-> "NameError", msg |-> <<"name '", "eps", "' is not defined">>]
  /\ pc' = "raised"
  /\ UNCHANGED <<config, run, dir, locals, ret, loss>>

\* the else branch raising a message that was never formatted
GetScaledSimilarityUnknown_Unformatted ==
  /\ pc \in {"sim12", "sim21"}
  /\ similarity_type \notin Supported
  /\ error' = [type |-> "ValueError", msg |-> <<"Unknown similarity type: ", "{}">>]
  /\ pc' = "raised"
  /\ UNCHANGED <<config, run, dir, locals, ret, loss, work>>

\* get_scaled_similarity, the else branch
GetScaledSimilarityUnknown ==
  /\ pc \in {"sim12", "sim21"}
  /\ similarity_type \notin Supported
  /\ error' = [type |-> "ValueError",
               msg |-> <<"Unknown similarity type: ", similarity_type>>]
  /\ pc' = "raised"
  /\ UNCHANGED <<config, run, dir, locals, ret, loss, work>>

\* softmaxed_sim_12 = tf.nn.softmax(sim_12, axis=1)
SoftmaxStep ==
  /\ pc = "softmax"
  /\ softmaxed_sim_12' = Softmax(sim_12)
  /\ work' = Append(work, "softmax")
  /\ pc' = "nn"
  /\ UNCHANGED <<config, run, dir, sim_12, nn_embs, sim_21, ret, loss, error>>

\* nn_embs = tf.matmul(softmaxed_sim_12, embs2)
NeighborStep ==
  /\ pc = "nn"
  /\ nn_embs' = SoftNeighbors(softmaxed_sim_12, Arg2)
  /\ work' = Append(work, "matmul")
  /\ pc' = "sim21"
  /\ UNCHANGED <<config, run, dir, sim_12, softmaxed_sim_12, sim_21, ret, loss, error>>

\* loss = sparse_categorical_crossentropy(...); return tf.reduce_mean(loss)
CrossEntropyStep ==
  /\ pc = "xent"
  /\ ret' = CycleLoss(sim_21)
  /\ work' = work \o <<"crossentropy", "mean">>
  /\ pc' = "returned"
  /\ UNCHANGED <<config, run, dir, locals, loss, error>>

\* an optimizer update slipped in between the two directional losses
AssignLoss_WithUpdate ==
  /\ pc = "returned"
  /\ dir = 1
  /\ loss' = ret
  /\ dir' = 2
  /\ sim_12' = <<>> /\ softmaxed_sim_12' = <<>> /\ nn_embs' = <<>> /\ sim_21' = <<>>
  /\ ret' = NoLoss
  /\ work' = <<>>
  /\ pc' = "sim12"
  /\ params' = params + 1
  /\ UNCHANGED <<config, error, num_steps, output_loss_every,
                 output_plots_during_training, step, losses, reports>>

\* loss = align_pair_of_sequences(embs1, embs2, ...), then the second call
\* is entered
AssignLoss ==
  /\ pc = "returned"
  /\ dir = 1
  /\ loss' = ret
  /\ dir' = 2
  /\ sim_12' = <<>> /\ softmaxed_sim_12' = <<>> /\ nn_embs' = <<>> /\ sim_21' = <<>>
  /\ ret' = NoLoss
  /\ work' = <<>>
  /\ pc' = "sim12"
  /\ UNCHANGED <<config, run, error>>

\* loss += align_pair_of_sequences(embs2, embs1, ...)
AccumulateLoss ==
  /\ pc = "returned"
  /\ dir = 2
  /\ loss' = FAdd(loss, ret)
  /\ pc' = "done"
  /\ UNCHANGED <<config, run, dir, locals, ret, error, work>>

Next ==
  \/ GetScaledSimilarity
  \/ GetScaledSimilarityL2
  \/ GetScaledSimilarityUnknown
  \/ SoftmaxStep
  \/ NeighborStep
  \/ CrossEntropyStep
  \/ AssignLoss
  \/ AccumulateLoss

Spec == Init /\ [][Next]_vars

\* One call: align_pair_of_sequences(embs1, embs2, similarity_type,
\* temperature) on the inputs Init draws
AlignNext ==
  \/ GetScaledSimilarity
  \/ GetScaledSimilarityL2
  \/ GetScaledSimilarityUnknown
  \/ SoftmaxStep
  \/ NeighborStep
  \/ CrossEntropyStep

AlignSpec == Init /\ [][AlignNext]_vars

(* ------------------------- the training loop -------------------------- *)

MaxSteps == 3

MaxEvery == 2

\* the rows of a stack (the notebook's 64, scaled down)
stack_size == 2

\* step before the for statement has bound it
Unbound == -1

\* the metric the notebook configures, the one whose branch raises, and one
\* that is none of the documented five
TrainTypes == {"l2sq", "l2", "manhattan-typo"}

\* the embeddings the model returns for the stacks of a batch
TrainStacks ==
  {e \in Embeddings : Len(e) = stack_size /\ e[1] = <<Fin(SCALE), Fin(0)>>
                                          /\ e[2] # <<Fin(0), Fin(0)>>}

TrainInit ==
  /\ similarity_type \in TrainTypes
  /\ temperature = Fin(SCALE)
  /\ num_steps \in 0..MaxSteps
  /\ output_loss_every \in 1..MaxEvery
  /\ output_plots_during_training \in BOOLEAN
  /\ embs1 = <<>> /\ embs2 = <<>>
  /\ pc = "loop"
  /\ dir = 1
  /\ sim_12 = <<>> /\ softmaxed_sim_12 = <<>> /\ nn_embs = <<>> /\ sim_21 = <<>>
  /\ ret = NoLoss
  /\ loss = NoLoss
  /\ error = NoError
  /\ work = <<>>
  /\ step = Unbound
  /\ losses = <<>>
  /\ reports = <<>>
  /\ params = 0

\* combined_dset.take(num_steps) has another batch to give
HasNextBatch == (IF step = Unbound THEN 0 ELSE step + 1) < num_steps

\* for step, paired_stacks in enumerate(...): the next batch is embedded and
\* the first call of align_pair_of_sequences is entered
NextBatch ==
  /\ pc = "loop"
  /\ HasNextBatch
  /\ step' = (IF step = Unbound THEN 0 ELSE step + 1)
  /\ embs1' \in TrainStacks
  /\ embs2' \in TrainStacks
  /\ dir' = 1
  /\ sim_12' = <<>> /\ softmaxed_sim_12' = <<>> /\ nn_embs' = <<>> /\ sim_21' = <<>>
  /\ ret' = NoLoss
  /\ work' = <<>>
  /\ pc' = "sim12"
  /\ UNCHANGED <<similarity_type, temperature, loss, error, num_steps,
                 output_loss_every, output_plots_during_training, losses,
                 reports, params>>

\* grads = tape.gradient(...); opt.apply_gradients(...)
ApplyGradients ==
  /\ pc = "done"
  /\ params' = params + 1
  /\ pc' = "applied"
  /\ UNCHANGED <<config, dir, locals, ret, loss, error, work, num_steps,
                 output_loss_every, output_plots_during_training, step,
                 losses, reports>>

\* losses.append(loss.numpy())
RecordLoss ==
  /\ pc = "applied"
  /\ losses' = Append(losses, loss)
  /\ pc' = "check"
  /\ UNCHANGED <<config, dir, locals, ret, loss, error, work, num_steps,
                 output_loss_every, output_plots_during_training, step,
                 reports, params>>

\* s[-n:] for n >= 1
LastN(s, n) == SubSeq(s, (IF Len(s) > n THEN Len(s) - n + 1 ELSE 1), Len(s))

\* display_pca_embs(model, plot_imgs, step, np.average(...)) or the print of
\* the else branch: the report of the step and of the averaged window
Report ==
  [kind     |-> IF output_plots_during_training THEN "plot" ELSE "print",
   step     |-> step,
   window   |-> LastN(losses, output_loss_every),
   avg_loss |-> ReduceMean(LastN(losses, output_loss_every))]

\* if not step % output_loss_every: the report of lines 341-344
ReportProgress ==
  /\ pc = "check"
  /\ step % output_loss_every = 0
  /\ reports' = Append(reports, Report)
  /\ pc' = "loop"
  /\ UNCHANGED <<config, dir, locals, ret, loss, error, work, num_steps,
                 output_loss_every, output_plots_during_training, step,
                 losses, params>>

\* if not step % output_loss_every: the condition is false
SkipReport ==
  /\ pc = "check"
  /\ step % output_loss_every # 0
  /\ pc' = "loop"
  /\ UNCHANGED <<config, run, dir, locals, ret, loss, error, work>>

\* lines 346-349 after the loop, step bound by the loop
FinalReport ==
  /\ pc = "loop"
  /\ ~HasNextBatch
  /\ step # Unbound
  /\ reports' = Append(reports, Report)
  /\ pc' = "final"
  /\ UNCHANGED <<config, dir, locals, ret, loss, error, work, num_steps,
                 output_loss_every, output_plots_during_training, step,
                 losses, params>>

\* lines 346-349 after a loop that ran no step: the name step is looked up
\* and is not bound
FinalReportUnbound ==
  /\ pc = "loop"
  /\ ~HasNextBatch
  /\ step = Unbound
  /\ error' = [type |-> "NameError", msg |-> <<"name '", "step", "' is not defined">>]
  /\ pc' = "raised"
  /\ UNCHANGED <<config, run, dir, locals, ret, loss, work>>

\* print('Training completed.')
Completed ==
  /\ pc = "final"
  /\ pc' = "completed"
  /\ UNCHANGED <<config, run, dir, locals, ret, loss, error, work>>

TrainNext ==
  \/ NextBatch
  \/ GetScaledSimilarity
  \/ GetScaledSimilarityL2
  \/ GetScaledSimilarityUnknown
  \/ SoftmaxStep
  \/ NeighborStep
  \/ CrossEntropyStep
  \/ AssignLoss
  \/ AccumulateLoss
  \/ ApplyGradients
  \/ RecordLoss
  \/ ReportProgress
  \/ SkipReport
  \/ FinalReport
  \/ FinalReportUnbound
  \/ Completed

TrainSpec == TrainInit /\ [][TrainNext]_vars

(* ------------------------------ claims -------------------------------- *)

PositiveTemperature == IsFin(temperature) /\ temperature.v > 0

NothingReturned ==
  /\ sim_12 = <<>> /\ softmaxed_sim_12 = <<>> /\ nn_embs = <<>> /\ sim_21 = <<>>
  /\ ret = NoLoss /\ loss = NoLoss

\* m is a matrix of r rows and c columns
HasShape(m, r, c) == Len(m) = r /\ \A i \in 1..r : Len(m[i]) = c

\* x is a number (finite or +inf) that is not negative
NonNegative(x) == x.k \in {"fin", "inf"} /\ x.v >= 0

\* C1: with temperature = 0 or temperature < 0, get_scaled_similarity (and so
\* align_pair_of_sequences) fails with the configuration error and returns
\* neither a similarity matrix nor a loss.
C1_NonPositiveTemperatureRaises ==
  ~PositiveTemperature =>
    /\ NothingReturned
    /\ pc \in {"sim12", "raised"}
    /\ pc = "raised" => error.type = "ValueError"

\* C2: a metric name outside the five supported ones makes
\* get_scaled_similarity fail with the configuration error (ValueError), whose
\* message contains the unrecognized metric string, and nothing is returned.
C2_UnknownMetricRaises ==
  similarity_type \notin Supported =>
    /\ NothingReturned
    /\ pc \in {"sim12", "raised"}
    /\ pc = "raised" =>
         /\ error.type = "ValueError"
         /\ \E i \in 1..Len(error.msg) : error.msg[i] = similarity_type

C2_Witness ==
  /\ pc = "raised"
  /\ similarity_type = "manhattan-typo"
  /\ error.msg = <<"Unknown similarity type: ", "manhattan-typo">>

\* Two rows of m are equal
HasDuplicateRows(m) == \E i, j \in 1..Len(m) : i # j /\ m[i] = m[j]

\* C3 as the spec states it, for the calls that return a number:
\* align_pair_of_sequences(E, E, metric, t) with t > 0 returns exactly 0,
\* duplicate rows or not.
C3_SelfAlignmentIsZero ==
  (pc = "returned" /\ embs1 = embs2 /\ PositiveTemperature /\ ~IsNaN(ret))
    => ret = Fin(0)

\* C3, amended: for t > 0, a number returned by
\* align_pair_of_sequences(E, E, metric, t) is never negative; it is exactly
\* 0 when E has one row, and it is strictly positive when two rows of E are
\* equal.
C3_SelfAlignment ==
  (pc = "returned" /\ embs1 = embs2 /\ PositiveTemperature /\ ~IsNaN(ret))
    => /\ NonNegative(ret)
       /\ Len(embs1) = 1 => ret = Fin(0)
       /\ HasDuplicateRows(embs1) => ret.v > 0

C3_Witness ==
  /\ pc = "returned" /\ embs1 = embs2 /\ PositiveTemperature
  /\ HasDuplicateRows(embs1)
  /\ IsFin(ret) /\ ret.v > 0

\* C4: for a supported metric and a positive temperature,
\* get_scaled_similarity(A, B, metric, t) completes without error and returns
\* a matrix of rows(A) by rows(B).
C4_SimilarityShape ==
  (similarity_type \in Supported /\ PositiveTemperature) =>
    /\ pc # "raised"
    /\ sim_12 # <<>> => HasShape(sim_12, Len(Arg1), Len(Arg2))
    /\ sim_21 # <<>> => HasShape(sim_21, Len(Arg1), Len(Arg1))

\* C5 as the spec states it: for a supported metric and t > 0 the scalar
\* align_pair_of_sequences returns is a number >= 0, and so is the step's
\* total over both directions.
C5_LossIsNonNegativeNumber ==
  PositiveTemperature =>
    /\ pc = "returned" => NonNegative(ret)
    /\ pc = "done" => NonNegative(loss)

\* C5, amended: for a supported metric and t > 0 the scalar
\* align_pair_of_sequences returns is never negative: it is >= 0 or NaN; and
\* the step's total over both directions is >= 0 or NaN.
C5_LossIsNeverNegative ==
  PositiveTemperature =>
    /\ pc = "returned" => (IsNaN(ret) \/ NonNegative(ret))
    /\ loss # NoLoss => (IsNaN(loss) \/ NonNegative(loss))

C5_Witness ==
  /\ pc = "done" /\ PositiveTemperature
  /\ embs1 # embs2
  /\ IsFin(loss) /\ loss.v > 0

\* C6: a call of align_pair_of_sequences either produces its loss or aborts
\* with the configuration error before any numeric operation has run; and no
\* invalid configuration (unknown metric, temperature <= 0) produces a loss.
C6_LossOrEarlyConfigurationError ==
  /\ pc = "raised" => (error.type = "ValueError" /\ work = <<>>)
  /\ (similarity_type \notin Supported \/ ~PositiveTemperature)
       => (ret = NoLoss /\ loss = NoLoss)

\* every entry of the row lies in [0, 1] and the entries sum to 1 within 1e-5
RowStochastic(r) ==
  /\ \A j \in 1..Len(r) : IsFin(r[j]) /\ 0 <= r[j].v /\ r[j].v <= PROB
  /\ Abs(SumF(r).v - PROB) <= PROB \div 100000

AllNaN(r) == \A j \in 1..Len(r) : IsNaN(r[j])

AllFinite(r) == \A j \in 1..Len(r) : IsFin(r[j])

\* C7 as the spec states it, for t > 0: every row of softmaxed_sim_12 has its
\* entries in [0, 1] and sums to 1 within 1e-5.
C7_SoftAssignmentIsRowStochastic ==
  (softmaxed_sim_12 # <<>> /\ PositiveTemperature) =>
    \A i \in Rows(softmaxed_sim_12) : RowStochastic(softmaxed_sim_12[i])

\* C7, amended: every row of softmaxed_sim_12 whose row of sim_12 is finite
\* has its entries in [0, 1] and sums to 1 within 1e-5; any other row is
\* either such a row or NaN in every entry.
C7_SoftAssignmentRows ==
  softmaxed_sim_12 # <<>> =>
    \A i \in Rows(softmaxed_sim_12) :
      /\ Len(softmaxed_sim_12[i]) = Len(Arg2)
      /\ AllFinite(sim_12[i]) => RowStochastic(softmaxed_sim_12[i])
      /\ RowStochastic(softmaxed_sim_12[i]) \/ AllNaN(softmaxed_sim_12[i])

C7_Witness ==
  /\ softmaxed_sim_12 # <<>>
  /\ \E i \in Rows(softmaxed_sim_12) :
       /\ Len(softmaxed_sim_12[i]) = 2
       /\ RowStochastic(softmaxed_sim_12[i])
       /\ 0 < softmaxed_sim_12[i][1].v
       /\ softmaxed_sim_12[i][1].v < softmaxed_sim_12[i][2].v

\* C8: for t > 0, get_scaled_similarity(A, A, metric, t) has a zero diagonal
\* under 'l2sq', and under 'l2' returns a matrix (whose diagonal is
\* -sqrt(eps)/t).
C8_SelfSimilarityDiagonal ==
  (dir = 1 /\ embs1 = embs2 /\ PositiveTemperature) =>
    /\ (similarity_type = "l2sq" /\ sim_12 # <<>>)
         => \A i \in Rows(sim_12) : sim_12[i][i] = Fin(0)
    /\ similarity_type = "l2" => (pc # "raised" /\ error = NoError)

\* The half of C8 the code does keep: the zero diagonal under 'l2sq'.
C8_SquaredEuclideanDiagonal ==
  (dir = 1 /\ embs1 = embs2 /\ PositiveTemperature
     /\ similarity_type = "l2sq" /\ sim_12 # <<>>)
    => \A i \in Rows(sim_12) : sim_12[i][i] = Fin(0)

\* the distance function get_scaled_similarity calls for the metric
DistanceOf(type, a, b) ==
  CASE type \in {"l2sq", "l2"} -> pairwise_l2_distance(a, b)
    [] type = "l1"             -> pairwise_l1_distance(a, b)
    [] type = "linf"           -> pairwise_linf_distance(a, b)

\* d is the transpose of e
IsTransposeOf(d, e) ==
  /\ Len(e) > 0 /\ Len(d) = Len(e[1])
  /\ \A i \in Rows(d) : Len(d[i]) = Len(e)
  /\ \A i \in Rows(d) : \A j \in Rows(e) : d[i][j] = e[j][i]

\* dist(a, b) is the transpose of dist(b, a) for the metric's distance function
Transposed(type, a, b) ==
  \A d \in {DistanceOf(type, a, b)} :
    \A e \in {DistanceOf(type, b, a)} : IsTransposeOf(d, e)

\* C9: entry (i, j) of dist(A, B) equals entry (j, i) of dist(B, A) for
\* pairwise_l2_distance, pairwise_l1_distance and pairwise_linf_distance, so
\* dist(A, A) is symmetric; stated of the operands of each call of a
\* distance function, in the state that follows the call.
C9_DistanceSymmetry ==
  similarity_type \in {"l2sq", "l2", "l1", "linf"} =>
    /\ (pc = "softmax" \/ (pc = "raised" /\ work # <<>>)) =>
         /\ Transposed(similarity_type, Arg1, Arg2)
         /\ Transposed(similarity_type, Arg1, Arg1)
    /\ pc = "xent" => Transposed(similarity_type, nn_embs, Arg1)

C9_Witness ==
  /\ pc = "softmax" /\ similarity_type = "l1" /\ temperature = Fin(SCALE)
  /\ Len(embs1) = 2 /\ Len(embs2) = 1
  /\ sim_12[1][1] # sim_12[2][1]
  /\ sim_12 = Negate(pairwise_l1_distance(embs1, embs2))

\* C10 as the spec states it, for the calls that return: with one row in E1,
\* a supported metric and t > 0, the loss returned is defined and equal to 0.
C10_SingleRowLossIsZero ==
  (pc = "returned" /\ Len(Arg1) = 1 /\ PositiveTemperature) => ret = Fin(0)

\* C10, amended: with one row in E1, a supported metric and t > 0, a loss
\* that align_pair_of_sequences returns is exactly 0 when its only logit
\* sim_21[0][0] is finite, and NaN when that logit is not; it is never a
\* non-zero number.
C10_SingleRowLoss ==
  (pc = "returned" /\ Len(Arg1) = 1 /\ PositiveTemperature) =>
    /\ HasShape(sim_21, 1, 1)
    /\ IsFin(sim_21[1][1]) => ret = Fin(0)
    /\ ~IsFin(sim_21[1][1]) => ret = NaN

C10_Witness ==
  /\ pc = "returned" /\ Len(Arg1) = 1 /\ Len(Arg2) = 2 /\ PositiveTemperature
  /\ Arg2[1] # Arg2[2]
  /\ IsFin(sim_21[1][1]) /\ sim_21[1][1].v < 0
  /\ ret = Fin(0)

\* the permutations of 1..n
Permutations(n) ==
  {p \in [1..n -> 1..n] : \A i, j \in 1..n : p[i] = p[j] => i = j}

\* the rows of e in the order p
Permuted(e, p) == [i \in 1..Len(e) |-> e[p[i]]]

\* the matrices that the permutations of e's rows give (e itself among them)
RowOrders(e) == {Permuted(e, p) : p \in Permutations(Len(e))}

\* align_pair_of_sequences(e1, e2, type, t) returns r
AlignReturns(e1, e2, type, t, r) ==
  \A s12 \in {Scaled(Similarity(e1, e2, type), t)} :
    \A sm \in {Softmax(s12)} :
      \A nn \in {SoftNeighbors(sm, e2)} :
        \A s21 \in {Scaled(Similarity(nn, e1, type), t)} :
          CycleLoss(s21) = r

\* C11: for every permutation p of the rows of E1 (label i staying with
\* position i), align_pair_of_sequences(p(E1), E2, metric, t) returns what
\* align_pair_of_sequences(E1, E2, metric, t) has returned: the mean of the
\* cycle cross-entropy does not depend on the order of E1's rows.
C11_RowOrderInvariance ==
  pc = "returned" =>
    \A e \in RowOrders(Arg1) :
      AlignReturns(e, Arg2, similarity_type, temperature, ret)

C11_Witness ==
  /\ pc = "returned" /\ Len(Arg1) = 2 /\ Len(Arg2) = 2
  /\ IsFin(ret) /\ ret.v > 0
  /\ CrossEntropyRow(sim_21[1], 1) # CrossEntropyRow(sim_21[2], 2)
  /\ AlignReturns(<<Arg1[2], Arg1[1]>>, Arg2, similarity_type, temperature, ret)

\* where the step is inside the loss computation of lines 333-334
InLossComputation ==
  pc \in {"sim12", "softmax", "nn", "sim21", "xent", "returned"}

\* a call is entered with nothing left of an earlier call, and what a call
\* returns is the function of its arguments alone: of this step's
\* embeddings, in both directions
LossCallsArePure ==
  /\ pc = "sim12" => (/\ sim_12 = <<>> /\ softmaxed_sim_12 = <<>>
                      /\ nn_embs = <<>> /\ sim_21 = <<>>
                      /\ ret = NoLoss /\ work = <<>>)
  /\ pc \in {"returned", "done"} =>
       AlignReturns(Arg1, Arg2, similarity_type, temperature, ret)
  /\ (pc = "returned" /\ dir = 2) =>
       AlignReturns(embs1, embs2, similarity_type, temperature, loss)

\* the updates applied so far: one for every step whose losses are both
\* computed and whose line 336 has run, none for the step in progress
OneUpdatePerStep ==
  /\ (InLossComputation \/ pc = "done") => params = step
  /\ pc \in {"applied", "check", "final", "completed"} => params = step + 1
  /\ pc = "loop" => params = (IF step = Unbound THEN 0 ELSE step + 1)
  /\ pc = "raised" => params = (IF step = Unbound THEN 0 ELSE step)

\* the loss computation leaves the embeddings and the parameters alone, and
\* the parameters change only in the update that follows the second loss
ParametersFrame ==
  /\ InLossComputation => UNCHANGED <<embs1, embs2, params>>
  /\ params' # params =>
       /\ pc = "done" /\ pc' = "applied"
       /\ dir = 2 /\ loss = loss' /\ loss # NoLoss
       /\ params' = params + 1
       /\ UNCHANGED <<embs1, embs2>>

\* C12: across the steps of the training loop, the loss computation never
\* changes its input embeddings or the model's trainable parameters and keeps
\* no state between calls; the parameters change only in the optimizer
\* update, once per step, after both directional losses of the step have been
\* computed from the same parameter values.
C12_ParametersChangeOnlyInUpdate ==
  /\ [](LossCallsArePure /\ OneUpdatePerStep)
  /\ [][ParametersFrame]_vars

C12_Witness ==
  /\ pc = "applied" /\ step = 1 /\ params = 2
  /\ embs1 # embs2
  /\ Len(losses) = 1 /\ IsFin(losses[1]) /\ losses[1].v > 0
  /\ IsFin(loss) /\ loss.v > 0

\* the steps 0..last after which line 339 reports, in order
ReportSteps(last) ==
  SelectSeq([j \in 1..(last + 1) |-> j - 1],
            LAMBDA k : k % output_loss_every = 0)

ReportedSteps == [i \in 1..Len(reports) |-> reports[i].step]

\* what C13 says of the loop's list, reports and end
TrainingLoopReports ==
  /\ pc # "raised"
  /\ (step # Unbound /\ pc \in {"check", "loop", "final", "completed"}) =>
       Len(losses) = step + 1
  /\ pc = "check" => losses[step + 1] = loss
  /\ pc = "loop" =>
       ReportedSteps = (IF step = Unbound THEN <<>> ELSE ReportSteps(step))
  /\ pc \in {"final", "completed"} =>
       ReportedSteps = Append(ReportSteps(step), step)
  /\ \A i \in 1..Len(reports) :
       /\ reports[i].step \in 0..(num_steps - 1)
       /\ reports[i].window # <<>>
       /\ Len(reports[i].window) <= output_loss_every
       /\ reports[i].window =
            LastN(SubSeq(losses, 1, reports[i].step + 1), output_loss_every)
  /\ pc = "completed" => (Len(losses) = num_steps /\ step = num_steps - 1)

\* C13: for every num_steps >= 0 and output_loss_every >= 1 (under the
\* configured metric): after step k the list losses has k+1 entries in step
\* order; a report follows step k exactly when k mod output_loss_every = 0,
\* and one more follows the last step; every report averages a non-empty
\* window of at most the last output_loss_every totals and names a defined
\* step; the run is never ended by an exception before 'Training completed.'.
C13_TrainingLoopReportsAndCompletes ==
  similarity_type = "l2sq" => TrainingLoopReports

\* The part of C13 the code keeps: the same for num_steps >= 1.
C13_LoopOfAtLeastOneStep ==
  (similarity_type = "l2sq" /\ num_steps >= 1) => TrainingLoopReports

=============================================================================
